---- MODULE Spec2Model ----
(***************************************************************************)
(* AlfredAI dashboard (vivaanshringi/alfredai-app): the three variants of  *)
(* the AlfredAIApp component, src/src/AlfredAIAppBackup.tsx ("backup"),    *)
(* src/unnamed/part_000 ("part_000") and src/unnamed/part_001              *)
(* ("part_001").                                                           *)
(*                                                                         *)
(* Texts are sequences of symbols.  A symbol is a TLA+ string: one         *)
(* character ("a", "A", the double quote, the comma, the newline, the      *)
(* space, a digit) or a delimiter-free literal word of the source          *)
(* ("sku", "hold", "premium", ...), carried as one symbol.  Numbers are    *)
(* integer-valued JavaScript numbers (exact in double precision).  A       *)
(* property that is undefined on a JavaScript object is named in the       *)
(* object's "missing" set; its slot then holds the canonical default.      *)
(*                                                                         *)
(* The endpoint address (lambdaUrl) and the mode of part_001 only shape    *)
(* the request that is sent; what comes back is drawn from Responses and   *)
(* FetchFailures.  executeWithAgent of part_001 reads rows and writes only *)
(* its own agentExecuting / agentResultMsg, which no other handler reads;  *)
(* it is not carried in the state.                                         *)
(***************************************************************************)
EXTENDS Integers, Sequences, FiniteSets, TLC

\* ------------------------------------------------------------------ bounds
\* Rows of a collection in the export and filter specifications.
MaxRows == 2
\* Symbols of a free-text field drawn exhaustively (export specification).
MaxStrLen == 2
\* File reads that may be outstanding together.
MaxReads == 2
\* Notifications raised in one run.
MaxAlerts == 2
\* Export artifacts produced in one run.
MaxDownloads == 1

\* ----------------------------------------------------------------- symbols
QUOTE == "\""
COMMA == ","
NL == "\n"
SP == " "

Whitespace == {SP, NL}

\* String.prototype.toLowerCase, symbol by symbol.
LowerSym(c) ==
  CASE c = "A" -> "a"
    [] c = "B" -> "b"
    [] c = "Hold" -> "hold"
    [] c = "HOLD" -> "hold"
    [] c = "Premium" -> "premium"
    [] c = "Increase" -> "increase"
    [] c = "Decrease" -> "decrease"
    [] OTHER -> c

toLowerCase(s) == [i \in 1..Len(s) |-> LowerSym(s[i])]

\* String.prototype.trim: the text without its leading and trailing whitespace.
RECURSIVE TrimLeft(_)
TrimLeft(s) ==
  IF s # <<>> /\ Head(s) \in Whitespace THEN TrimLeft(Tail(s)) ELSE s

RECURSIVE TrimRight(_)
TrimRight(s) ==
  IF s # <<>> /\ s[Len(s)] \in Whitespace
  THEN TrimRight(SubSeq(s, 1, Len(s) - 1))
  ELSE s

trim(s) == TrimRight(TrimLeft(s))

\* String.prototype.includes: q occurs in s at some offset (the empty q always).
includes(s, q) ==
  \E k \in 0..(Len(s) - Len(q)) : SubSeq(s, k + 1, k + Len(q)) = q

\* Mutant of replaceAllQuotes: the quotes are left single.
replaceNoQuotes(s) == s

\* s.replaceAll('"', '""').
RECURSIVE replaceAllQuotes(_)
replaceAllQuotes(s) ==
  IF s = <<>> THEN <<>>
  ELSE IF Head(s) = QUOTE THEN <<QUOTE, QUOTE>> \o replaceAllQuotes(Tail(s))
  ELSE <<Head(s)>> \o replaceAllQuotes(Tail(s))

\* Number-to-string of an integer-valued number: decimal digits, "-" first
\* for a negative one.
Digit(d) ==
  CASE d = 0 -> "0" [] d = 1 -> "1" [] d = 2 -> "2" [] d = 3 -> "3"
    [] d = 4 -> "4" [] d = 5 -> "5" [] d = 6 -> "6" [] d = 7 -> "7"
    [] d = 8 -> "8" [] OTHER -> "9"

RECURSIVE NatToString(_)
NatToString(n) ==
  IF n < 10 THEN <<Digit(n)>>
  ELSE NatToString(n \div 10) \o <<Digit(n % 10)>>

NumberToString(n) == IF n < 0 THEN <<"-">> \o NatToString(-n) ELSE NatToString(n)

\* Array.prototype.join(sep) of an array of texts.
RECURSIVE join(_, _)
join(xs, sep) ==
  IF xs = <<>> THEN <<>>
  ELSE IF Len(xs) = 1 THEN xs[1]
  ELSE xs[1] \o sep \o join(Tail(xs), sep)

\* --------------------------------------------------------------- data model
\* Recommendation: one element of payload.recommendations.  kind "null" is a
\* JSON null element; kind "object" is an object whose properties named in
\* "missing" are undefined.
RecFields ==
  {"sku", "product_name", "units_ordered", "current_price", "gross_profit_unit",
   "strategy", "price_action", "price_change_pct", "reason"}

Recommendation(sku, name, units, price, gpu, strategy, action, pct, reason, missing) ==
  [kind |-> "object", missing |-> missing,
   sku |-> sku, product_name |-> name, units_ordered |-> units,
   current_price |-> price, gross_profit_unit |-> gpu, strategy |-> strategy,
   price_action |-> action, price_change_pct |-> pct, reason |-> reason]

NullItem ==
  [kind |-> "null", missing |-> RecFields,
   sku |-> <<>>, product_name |-> <<>>, units_ordered |-> 0,
   current_price |-> 0, gross_profit_unit |-> 0, strategy |-> <<>>,
   price_action |-> <<>>, price_change_pct |-> 0, reason |-> <<>>]

\* Payload: what JSON.parse / res.json() delivers and setPayload stores.
\* kind "null" is null (also the initial useState value), kind "scalar" a JSON
\* number, string or boolean, kind "object" an object.  recsIsArray tells
\* whether the recommendations property, when present, is an array.
PayloadFields == {"run_id", "sku_count", "recommendations"}

Payload(run_id, sku_count, recs, missing) ==
  [kind |-> "object", missing |-> missing, run_id |-> run_id,
   sku_count |-> sku_count, recsIsArray |-> TRUE, recommendations |-> recs]

PayloadRecsNotArray(run_id, sku_count) ==
  [kind |-> "object", missing |-> {}, run_id |-> run_id,
   sku_count |-> sku_count, recsIsArray |-> FALSE, recommendations |-> <<>>]

NullPayload ==
  [kind |-> "null", missing |-> PayloadFields, run_id |-> <<>>,
   sku_count |-> 0, recsIsArray |-> FALSE, recommendations |-> <<>>]

ScalarPayload ==
  [kind |-> "scalar", missing |-> PayloadFields, run_id |-> <<>>,
   sku_count |-> 0, recsIsArray |-> FALSE, recommendations |-> <<>>]

\* The required shape {run_id: string, sku_count: integer, recommendations:
\* [records]}: every property but the optional reason is present.
IsRecord(r) == r.kind = "object" /\ r.missing \subseteq {"reason"}

HasPayloadShape(p) ==
  /\ p.kind = "object"
  /\ p.missing = {}
  /\ p.recsIsArray
  /\ \A i \in 1..Len(p.recommendations) : IsRecord(p.recommendations[i])

\* x || 0 of a numeric property, x || "" of a textual one.
orZero(r, f) == IF f \in r.missing THEN 0 ELSE r[f]

orEmpty(r, f) == IF f \in r.missing THEN <<>> ELSE r[f]

safeLower(r, f) == toLowerCase(orEmpty(r, f))

\* Mutant of withDerived: the price delta is taken to be the new price.
withDerivedDeltaIsPrice(rec) ==
  LET priceNaN == "current_price" \in rec.missing
      suggested_new_price == rec.current_price * (1 + orZero(rec, "price_change_pct"))
      suggested_price_delta == suggested_new_price
  IN [kind |-> rec.kind, missing |-> rec.missing,
      sku |-> rec.sku, product_name |-> rec.product_name,
      units_ordered |-> rec.units_ordered, current_price |-> rec.current_price,
      gross_profit_unit |-> rec.gross_profit_unit, strategy |-> rec.strategy,
      price_action |-> rec.price_action, price_change_pct |-> rec.price_change_pct,
      reason |-> rec.reason,
      nan |-> IF priceNaN
              THEN {"suggested_new_price", "suggested_price_delta", "revenue_impact_est"}
              ELSE {},
      suggested_new_price |-> IF priceNaN THEN 0 ELSE suggested_new_price,
      suggested_price_delta |-> IF priceNaN THEN 0 ELSE suggested_price_delta,
      revenue_impact_est |->
        IF priceNaN THEN 0 ELSE orZero(rec, "units_ordered") * suggested_price_delta,
      gross_profit_total |->
        orZero(rec, "gross_profit_unit") * orZero(rec, "units_ordered")]

\* Mutant of withDerived: the revenue impact multiplies the new price.
withDerivedRevenueOfNewPrice(rec) ==
  LET priceNaN == "current_price" \in rec.missing
      suggested_new_price == rec.current_price * (1 + orZero(rec, "price_change_pct"))
      suggested_price_delta == suggested_new_price - rec.current_price
  IN [kind |-> rec.kind, missing |-> rec.missing,
      sku |-> rec.sku, product_name |-> rec.product_name,
      units_ordered |-> rec.units_ordered, current_price |-> rec.current_price,
      gross_profit_unit |-> rec.gross_profit_unit, strategy |-> rec.strategy,
      price_action |-> rec.price_action, price_change_pct |-> rec.price_change_pct,
      reason |-> rec.reason,
      nan |-> IF priceNaN
              THEN {"suggested_new_price", "suggested_price_delta", "revenue_impact_est"}
              ELSE {},
      suggested_new_price |-> IF priceNaN THEN 0 ELSE suggested_new_price,
      suggested_price_delta |-> IF priceNaN THEN 0 ELSE suggested_price_delta,
      revenue_impact_est |->
        IF priceNaN THEN 0 ELSE orZero(rec, "units_ordered") * suggested_new_price,
      gross_profit_total |->
        orZero(rec, "gross_profit_unit") * orZero(rec, "units_ordered")]

\* withDerived: the record plus its four computed fields.  A field computed
\* from an undefined current_price is NaN and is named in "nan".
withDerived(rec) ==
  LET priceNaN == "current_price" \in rec.missing
      suggested_new_price == rec.current_price * (1 + orZero(rec, "price_change_pct"))
      suggested_price_delta == suggested_new_price - rec.current_price
  IN [kind |-> rec.kind, missing |-> rec.missing,
      sku |-> rec.sku, product_name |-> rec.product_name,
      units_ordered |-> rec.units_ordered, current_price |-> rec.current_price,
      gross_profit_unit |-> rec.gross_profit_unit, strategy |-> rec.strategy,
      price_action |-> rec.price_action, price_change_pct |-> rec.price_change_pct,
      reason |-> rec.reason,
      nan |-> IF priceNaN
              THEN {"suggested_new_price", "suggested_price_delta", "revenue_impact_est"}
              ELSE {},
      suggested_new_price |-> IF priceNaN THEN 0 ELSE suggested_new_price,
      suggested_price_delta |-> IF priceNaN THEN 0 ELSE suggested_price_delta,
      revenue_impact_est |->
        IF priceNaN THEN 0 ELSE orZero(rec, "units_ordered") * suggested_price_delta,
      gross_profit_total |->
        orZero(rec, "gross_profit_unit") * orZero(rec, "units_ordered")]

\* ------------------------------------------------------- filter and search
Variants == {"backup", "part_000", "part_001"}

ALL == <<"all">>

\* Mutant of searchMatches: the texts are compared as they are spelled.
searchMatchesCaseSensitive(r, search) ==
  IF search = <<>> THEN TRUE
  ELSE \/ includes(r.sku, search)
       \/ includes(r.product_name, search)

\* backup, rows: the free-text predicate, reading sku and product_name.
searchMatches(r, search) ==
  IF search = <<>> THEN TRUE
  ELSE \/ includes(toLowerCase(r.sku), toLowerCase(search))
       \/ includes(toLowerCase(r.product_name), toLowerCase(search))

\* Mutant of strategyMatches: the tags are compared without regard to case.
strategyMatchesAnyCase(r, strategyFilter) ==
  IF strategyFilter = ALL THEN TRUE
  ELSE toLowerCase(r.strategy) = toLowerCase(strategyFilter)

strategyMatches(r, strategyFilter) ==
  IF strategyFilter = ALL THEN TRUE ELSE r.strategy = strategyFilter

priceActionMatches(r, priceActionFilter) ==
  IF priceActionFilter = ALL THEN TRUE ELSE r.price_action = priceActionFilter

\* Array.prototype.map(withDerived).
mapWithDerived(recs) == [i \in 1..Len(recs) |-> withDerived(recs[i])]

\* Mutant of backupRows: a record passes when it passes the search and either
\* categorical filter.
backupRowsEitherFilter(p, search, strategyFilter, priceActionFilter) ==
  LET base == IF "recommendations" \in p.missing THEN <<>>
              ELSE mapWithDerived(p.recommendations)
      bySearch == SelectSeq(base, LAMBDA r : searchMatches(r, search))
  IN SelectSeq(bySearch, LAMBDA r : \/ strategyMatches(r, strategyFilter)
                                    \/ priceActionMatches(r, priceActionFilter))

\* Mutant of backupRows: the first record that passes is left out.
backupRowsDroppingFirst(p, search, strategyFilter, priceActionFilter) ==
  LET base == IF "recommendations" \in p.missing THEN <<>>
              ELSE mapWithDerived(p.recommendations)
      kept == SelectSeq(base, LAMBDA r : /\ searchMatches(r, search)
                                         /\ strategyMatches(r, strategyFilter)
                                         /\ priceActionMatches(r, priceActionFilter))
  IN IF kept = <<>> THEN kept ELSE Tail(kept)

\* backup: const rows = useMemo(...): the derived records that pass the search
\* and both categorical filters.
backupRows(p, search, strategyFilter, priceActionFilter) ==
  LET base == IF "recommendations" \in p.missing THEN <<>>
              ELSE mapWithDerived(p.recommendations)
      bySearch == SelectSeq(base, LAMBDA r : searchMatches(r, search))
      byStrategy == SelectSeq(bySearch, LAMBDA r : strategyMatches(r, strategyFilter))
  IN SelectSeq(byStrategy, LAMBDA r : priceActionMatches(r, priceActionFilter))

\* part_000 / part_001: const rows = payload?.recommendations ?? [].
payloadRows(p) ==
  IF "recommendations" \in p.missing THEN <<>> ELSE p.recommendations

\* part_000 / part_001, filteredRows: the predicate on the trimmed, lowercased
\* query q.
queryMatches(r, q) ==
  \/ includes(safeLower(r, "sku"), q)
  \/ includes(safeLower(r, "product_name"), q)
  \/ includes(safeLower(r, "strategy"), q)
  \/ includes(safeLower(r, "price_action"), q)

filteredRows(rs, searchQuery) ==
  LET q == trim(toLowerCase(searchQuery))
  IN IF q = <<>> THEN rs ELSE SelectSeq(rs, LAMBDA r : queryMatches(r, q))

\* Mutant of rowsOf: part_000 / part_001 export and count the searched rows.
rowsOfSearched(v, p, search, strategyFilter, priceActionFilter) ==
  IF v = "backup" THEN backupRows(p, search, strategyFilter, priceActionFilter)
  ELSE filteredRows(payloadRows(p), search)

\* The collection the export and the statistics of a variant read.
rowsOf(v, p, search, strategyFilter, priceActionFilter) ==
  IF v = "backup" THEN backupRows(p, search, strategyFilter, priceActionFilter)
  ELSE payloadRows(p)

\* The collection the table of a variant shows.
shownRows(v, p, search, strategyFilter, priceActionFilter) ==
  IF v = "backup" THEN backupRows(p, search, strategyFilter, priceActionFilter)
  ELSE filteredRows(payloadRows(p), search)

\* ------------------------------------------------------------- CSV export
backupHeader ==
  <<"sku", "product_name", "strategy", "price_action", "price_change_pct",
    "units_ordered", "current_price", "suggested_new_price",
    "suggested_price_delta", "gross_profit_unit", "gross_profit_total",
    "revenue_impact_est", "reason">>

partHeader ==
  <<"sku", "product_name", "strategy", "price_action", "price_change_pct",
    "units_ordered", "current_price", "gross_profit_unit", "reason">>

headerOf(v) == IF v = "backup" THEN backupHeader ELSE partHeader

\* Array.prototype.join's conversion of one element: undefined gives the
\* empty text, a text itself, a number its decimal digits, NaN "NaN".
textCell(r, f) == IF f \in r.missing THEN <<>> ELSE r[f]

numberCell(r, f) == IF f \in r.missing THEN <<>> ELSE NumberToString(r[f])

derivedCell(r, f) == IF f \in r.nan THEN <<"NaN">> ELSE NumberToString(r[f])

\* Mutant of quoted: the closing quote is forgotten.
quotedUnclosed(s) == <<QUOTE>> \o replaceAllQuotes(s)

\* '"' + s.replaceAll('"', '""') + '"'.
quoted(s) == <<QUOTE>> \o replaceAllQuotes(s) \o <<QUOTE>>

\* backup, downloadCSV: the array of one row (r.product_name read unguarded).
backupCsvRow(r) ==
  <<textCell(r, "sku"), quoted(r.product_name), textCell(r, "strategy"),
    textCell(r, "price_action"), numberCell(r, "price_change_pct"),
    numberCell(r, "units_ordered"), numberCell(r, "current_price"),
    derivedCell(r, "suggested_new_price"), derivedCell(r, "suggested_price_delta"),
    numberCell(r, "gross_profit_unit"), derivedCell(r, "gross_profit_total"),
    derivedCell(r, "revenue_impact_est"), quoted(orEmpty(r, "reason"))>>

\* part_000 / part_001, downloadCSV: the array of one row.
partCsvRow(r) ==
  <<textCell(r, "sku"), quoted(orEmpty(r, "product_name")), textCell(r, "strategy"),
    textCell(r, "price_action"), numberCell(r, "price_change_pct"),
    numberCell(r, "units_ordered"), numberCell(r, "current_price"),
    numberCell(r, "gross_profit_unit"), quoted(orEmpty(r, "reason"))>>

csvRow(v, r) == IF v = "backup" THEN backupCsvRow(r) ELSE partCsvRow(r)

\* [header.join(",")].concat(rows.map(... .join(","))).
csvLines(v, rs) ==
  <<join([i \in 1..Len(headerOf(v)) |-> <<headerOf(v)[i]>>], <<COMMA>>)>>
  \o [i \in 1..Len(rs) |-> join(csvRow(v, rs[i]), <<COMMA>>)]

\* Mutant of csvText: every line, the last one too, ends in a newline.
csvTextTerminated(v, rs) == join(csvLines(v, rs), <<NL>>) \o <<NL>>

\* lines.join("\n"): the text of the blob.
csvText(v, rs) == join(csvLines(v, rs), <<NL>>)

\* backup: r.product_name.replaceAll on an undefined product_name throws.
csvThrows(v, rs) ==
  v = "backup" /\ \E i \in 1..Len(rs) : "product_name" \in rs[i].missing

\* ------------------------------------------------------------ statistics
\* Array.prototype.reduce((acc, x) => acc + x, 0) over the terms of the rows.
RECURSIVE reduceSum(_)
reduceSum(xs) == IF xs = <<>> THEN 0 ELSE Head(xs) + reduceSum(Tail(xs))

\* payload?.sku_count ?? rows.length: the length for no payload and for an
\* undefined or null sku_count.
skuCountOrLength(p, rs) ==
  IF "sku_count" \in p.missing THEN Len(rs) ELSE p.sku_count

\* r.revenue_impact_est || 0 and r.gross_profit_total || 0 of a derived record.
derivedOrZero(r, f) == IF f \in r.nan THEN 0 ELSE r[f]

\* Mutant of kpis: the counts are taken over every record of the payload.
kpisOfPayload(p, rs) ==
  LET all == mapWithDerived(payloadRows(p))
  IN [skuAnalyzed |-> skuCountOrLength(p, rs),
      hold |-> Len(SelectSeq(all, LAMBDA r : r.strategy = <<"hold">>)),
      premium |-> Len(SelectSeq(all, LAMBDA r : r.strategy = <<"premium", "_position">>)),
      increases |-> Len(SelectSeq(all, LAMBDA r : r.price_action = <<"increase">>)),
      estRevenue |-> reduceSum([i \in 1..Len(rs) |-> derivedOrZero(rs[i], "revenue_impact_est")]),
      estGrossProfit |-> reduceSum([i \in 1..Len(rs) |-> derivedOrZero(rs[i], "gross_profit_total")])]

\* backup: const kpis = useMemo(...) over the filtered, derived rows.
kpis(p, rs) ==
  [skuAnalyzed |-> skuCountOrLength(p, rs),
   hold |-> Len(SelectSeq(rs, LAMBDA r : r.strategy = <<"hold">>)),
   premium |-> Len(SelectSeq(rs, LAMBDA r : r.strategy = <<"premium", "_position">>)),
   increases |-> Len(SelectSeq(rs, LAMBDA r : r.price_action = <<"increase">>)),
   estRevenue |-> reduceSum([i \in 1..Len(rs) |-> derivedOrZero(rs[i], "revenue_impact_est")]),
   estGrossProfit |-> reduceSum([i \in 1..Len(rs) |-> derivedOrZero(rs[i], "gross_profit_total")])]

\* One term of estUplift: units * price * change, each || 0.
upliftTerm(r) ==
  orZero(r, "units_ordered") * orZero(r, "current_price") * orZero(r, "price_change_pct")

\* Mutant of stats: skuCount is always the number of rows.
statsCountingRows(p, rs) ==
  [skuCount |-> Len(rs),
   hold |-> Len(SelectSeq(rs, LAMBDA r : safeLower(r, "strategy") = <<"hold">>)),
   premium |-> Len(SelectSeq(rs, LAMBDA r : includes(safeLower(r, "strategy"), <<"premium">>))),
   inc |-> Len(SelectSeq(rs, LAMBDA r : safeLower(r, "price_action") = <<"increase">>)),
   dec |-> Len(SelectSeq(rs, LAMBDA r : safeLower(r, "price_action") = <<"decrease">>)),
   estUplift |-> reduceSum([i \in 1..Len(rs) |-> upliftTerm(rs[i])])]

\* Mutant of stats: the uplift leaves out the price change.
statsUpliftWithoutChange(p, rs) ==
  [skuCount |-> skuCountOrLength(p, rs),
   hold |-> Len(SelectSeq(rs, LAMBDA r : safeLower(r, "strategy") = <<"hold">>)),
   premium |-> Len(SelectSeq(rs, LAMBDA r : includes(safeLower(r, "strategy"), <<"premium">>))),
   inc |-> Len(SelectSeq(rs, LAMBDA r : safeLower(r, "price_action") = <<"increase">>)),
   dec |-> Len(SelectSeq(rs, LAMBDA r : safeLower(r, "price_action") = <<"decrease">>)),
   estUplift |-> reduceSum([i \in 1..Len(rs) |->
                             orZero(rs[i], "units_ordered") * orZero(rs[i], "current_price")])]

\* Mutant of stats: hold is counted by substring, as premium is.
statsHoldBySubstring(p, rs) ==
  [skuCount |-> skuCountOrLength(p, rs),
   hold |-> Len(SelectSeq(rs, LAMBDA r : includes(safeLower(r, "strategy"), <<"hold">>))),
   premium |-> Len(SelectSeq(rs, LAMBDA r : includes(safeLower(r, "strategy"), <<"premium">>))),
   inc |-> Len(SelectSeq(rs, LAMBDA r : safeLower(r, "price_action") = <<"increase">>)),
   dec |-> Len(SelectSeq(rs, LAMBDA r : safeLower(r, "price_action") = <<"decrease">>)),
   estUplift |-> reduceSum([i \in 1..Len(rs) |-> upliftTerm(rs[i])])]

\* part_000 / part_001: const stats = useMemo(...) over rows, every record of
\* the payload.  dec is computed by part_001 only.
stats(p, rs) ==
  [skuCount |-> skuCountOrLength(p, rs),
   hold |-> Len(SelectSeq(rs, LAMBDA r : safeLower(r, "strategy") = <<"hold">>)),
   premium |-> Len(SelectSeq(rs, LAMBDA r : includes(safeLower(r, "strategy"), <<"premium">>))),
   inc |-> Len(SelectSeq(rs, LAMBDA r : safeLower(r, "price_action") = <<"increase">>)),
   dec |-> Len(SelectSeq(rs, LAMBDA r : safeLower(r, "price_action") = <<"decrease">>)),
   estUplift |-> reduceSum([i \in 1..Len(rs) |-> upliftTerm(rs[i])])]

\* The statistics a variant shows, under common names.
shownStats(v, p, rs) ==
  IF v = "backup"
  THEN LET k == kpis(p, rs)
       IN [skuCount |-> k.skuAnalyzed, hold |-> k.hold, premium |-> k.premium,
           inc |-> k.increases, estUplift |-> k.estRevenue]
  ELSE LET t == stats(p, rs)
       IN [skuCount |-> t.skuCount, hold |-> t.hold, premium |-> t.premium,
           inc |-> t.inc, estUplift |-> t.estUplift]

\* ------------------------------------------------------------ memoization
\* const x = useMemo(() => value, deps): the cached value when the dependency
\* list equals the one of the previous render, the fresh value otherwise.
\* Dependencies are compared by value here and by identity in React; the code
\* never changes a value in place, so identical dependencies are equal ones
\* and the model reuses the cache at least as often as React does.
useMemo(cached, deps, value) ==
  IF deps = cached.deps THEN cached ELSE [deps |-> deps, value |-> value]

\* Before the first render nothing is cached.
NoMemo == [rows |-> [deps |-> <<>>, value |-> <<>>],
           stats |-> [deps |-> <<>>, value |-> <<>>]]

\* Mutant of render: the rows are memoized without the search among their
\* dependencies.
renderWithoutSearchDep(m, v, p, search, strategyFilter, priceActionFilter) ==
  LET shownMemo ==
        useMemo(m.rows,
                IF v = "backup" THEN <<p, strategyFilter, priceActionFilter>>
                ELSE <<payloadRows(p)>>,
                shownRows(v, p, search, strategyFilter, priceActionFilter))
      aggregated == IF v = "backup" THEN shownMemo.value ELSE payloadRows(p)
  IN [rows |-> shownMemo,
      stats |-> useMemo(m.stats, <<p, aggregated>>, shownStats(v, p, aggregated))]

\* One render of the component: backup memoizes rows on [payload, search,
\* strategyFilter, priceActionFilter] and kpis on [payload, rows]; part_000 /
\* part_001 memoize filteredRows on [rows, searchQuery] and stats on
\* [payload, rows].
render(m, v, p, search, strategyFilter, priceActionFilter) ==
  LET shownMemo ==
        useMemo(m.rows,
                IF v = "backup" THEN <<p, search, strategyFilter, priceActionFilter>>
                ELSE <<payloadRows(p), search>>,
                shownRows(v, p, search, strategyFilter, priceActionFilter))
      aggregated == IF v = "backup" THEN shownMemo.value ELSE payloadRows(p)
  IN [rows |-> shownMemo,
      stats |-> useMemo(m.stats, <<p, aggregated>>, shownStats(v, p, aggregated))]

\* ------------------------------------------------------------------ render
\* Whether rendering the component throws; main.tsx mounts it with no error
\* boundary, so a throw during render unmounts the whole tree.
\* backup: .map on a non-array, withDerived(null), r.sku.toLowerCase() or
\* r.product_name.toLowerCase() on undefined under a non-empty search.
backupRenderThrows(p, search) ==
  /\ "recommendations" \notin p.missing
  /\ \/ ~p.recsIsArray
     \/ \E i \in 1..Len(p.recommendations) :
          LET r == p.recommendations[i]
          IN \/ r.kind = "null"
             \/ /\ search # <<>>
                /\ \/ "sku" \in r.missing
                   \/ /\ ~includes(toLowerCase(r.sku), toLowerCase(search))
                      /\ "product_name" \in r.missing

\* part_000 / part_001: rows.filter on a non-array, r.strategy on null.
partRenderThrows(p) ==
  /\ "recommendations" \notin p.missing
  /\ \/ ~p.recsIsArray
     \/ \E i \in 1..Len(p.recommendations) : p.recommendations[i].kind = "null"

renderThrows(v, p, search) ==
  IF v = "backup" THEN backupRenderThrows(p, search) ELSE partRenderThrows(p)

\* ------------------------------------------------------------------ inputs
\* What the endpoint and the uploaded files may hold in the state machine.
RecA1 ==
  Recommendation(<<"A", "1">>, <<"a", "b">>, 10, 5, 1, <<"hold">>, <<"none">>,
                 0, <<>>, {"reason"})

RecB2 ==
  Recommendation(<<"B", "2">>, <<"b">>, 4, 20, 3, <<"premium", "_position">>,
                 <<"increase">>, 1, <<"x">>, {})

RecNoName ==
  Recommendation(<<"B", "3">>, <<>>, 2, 3, 1, <<"hold">>, <<"none">>, 0, <<>>,
                 {"product_name", "reason"})

PayloadR1 == Payload(<<"r", "1">>, 2, <<RecA1, RecB2>>, {})

PayloadR2 == Payload(<<"r", "2">>, 5, <<RecB2>>, {})

PayloadBadRecord == Payload(<<"r", "3">>, 1, <<RecNoName>>, {})

PayloadBadRecs == PayloadRecsNotArray(<<"r", "4">>, 1)

\* A text: JSON.parse / res.json() succeeds with "value" or throws.
JsonText(p) == [parses |-> TRUE, value |-> p]

PlainText == [parses |-> FALSE, value |-> NullPayload]

\* Bodies of the ok responses of the endpoint, and texts of the files chosen.
Responses == {JsonText(PayloadR1), JsonText(PayloadBadRecord), PlainText}

Files == {JsonText(PayloadR2), JsonText(PayloadBadRecs), PlainText}

\* Why a fetch fails before its body is read: !res.ok, or fetch rejecting.
FetchFailures == {"http_status", "transport"}

SearchInputs == {<<>>, <<"a">>}

\* The options of the two selects of backup.
StrategyOptions == {ALL, <<"hold">>, <<"premium", "_position">>}

PriceActionOptions == {ALL, <<"none">>, <<"increase">>, <<"decrease">>}

\* The options the user picks in the state machine.
StrategyPicks == {ALL, <<"hold">>}

PriceActionPicks == {ALL, <<"increase">>}

\* ------------------------------------------------------------------- state
VARIABLES
  variant,            \* which of the three components is mounted
  payload,            \* useState<Payload | null>
  loading,            \* useState(false)
  inflight,           \* calls awaiting fetch(url)
  responses,          \* ok responses awaiting res.json(): their bodies
  payloadAtFetch,     \* history: payload when the outstanding fetch was triggered
  reads,              \* FileReader reads awaiting onload: the files' texts
  search,             \* search (backup), searchQuery (part_000, part_001)
  strategyFilter,     \* backup
  priceActionFilter,  \* backup
  view,               \* part_000, part_001
  alerts,             \* alert() calls so far
  downloads,          \* blobs handed to the browser so far
  blob,               \* the text of the last blob made
  crashed,            \* a render threw: the tree is unmounted
  lastEvent,          \* history: the last event handled
  memo                \* what useMemo holds: dependencies and values

vars ==
  <<variant, payload, loading, inflight, responses, payloadAtFetch, reads,
    search, strategyFilter, priceActionFilter, view, alerts, downloads, blob,
    crashed, lastEvent, memo>>

rows == rowsOf(variant, payload, search, strategyFilter, priceActionFilter)

\* Fetches that have been triggered and have not completed.
outstanding == inflight + Cardinality(responses)

\* The first render after mounting.
Mounted ==
  memo = render(NoMemo, variant, payload, search, strategyFilter, priceActionFilter)

\* The render that follows a handled event; an unmounted tree renders no
\* more.
Rerender ==
  memo' = IF crashed' THEN memo
          ELSE render(memo, variant, payload', search', strategyFilter',
                      priceActionFilter')

InitControls ==
  /\ payload = NullPayload
  /\ loading = FALSE
  /\ inflight = 0
  /\ responses = {}
  /\ payloadAtFetch = NullPayload
  /\ reads = {}
  /\ search = <<>>
  /\ strategyFilter = ALL
  /\ priceActionFilter = ALL
  /\ view = "home"
  /\ alerts = 0
  /\ downloads = 0
  /\ blob = <<>>
  /\ crashed = FALSE
  /\ lastEvent = "mount"
  /\ Mounted

Init == variant \in Variants /\ InitControls

\* The re-render with the new payload and search: a throw unmounts the tree.
Rendered(p, s) == crashed' = renderThrows(variant, p, s)

\* setView("home") of part_000 / part_001 after a successful load.
ViewHome == view' = IF variant = "backup" THEN view ELSE "home"

\* Mutant of setPayload: the new recommendations are merged into the old ones.
setPayloadMerging(data) ==
  IF crashed
  THEN UNCHANGED <<payload, view, crashed>>
  ELSE /\ payload' = [data EXCEPT !.recommendations =
                                     payload.recommendations \o data.recommendations]
       /\ ViewHome
       /\ Rendered(data, search)

\* setPayload(data) and the state updates that follow it; an unmounted
\* component ignores them.
setPayload(data) ==
  IF crashed
  THEN UNCHANGED <<payload, view, crashed>>
  ELSE /\ payload' = data
       /\ ViewHome
       /\ Rendered(data, search)

\* Mutant of setLoadingFalse: finally leaves loading as it is.
setLoadingKept == loading' = loading

\* finally { setLoading(false) }.
setLoadingFalse == loading' = IF crashed THEN loading ELSE FALSE

\* Mutant of fetchFromLambda: the buttons are not disabled while loading.
fetchFromLambdaUngated ==
  /\ ~crashed
  /\ loading' = TRUE
  /\ inflight' = inflight + 1
  /\ payloadAtFetch' = payload
  /\ lastEvent' = "fetch"
  /\ UNCHANGED <<variant, payload, responses, reads, search, strategyFilter,
                 priceActionFilter, view, alerts, downloads, blob, crashed>>
  /\ Rerender

\* fetchFromLambda / runLambda / runAgent up to "await fetch": the buttons are
\* disabled while loading.
fetchFromLambda ==
  /\ ~crashed
  /\ ~loading
  /\ loading' = TRUE
  /\ inflight' = inflight + 1
  /\ payloadAtFetch' = payload
  /\ lastEvent' = "fetch"
  /\ UNCHANGED <<variant, payload, responses, reads, search, strategyFilter,
                 priceActionFilter, view, alerts, downloads, blob, crashed>>
  /\ Rerender

\* fetch resolves with an ok response: the call now awaits res.json().
fetchResponded(resp) ==
  /\ inflight > 0
  /\ inflight' = inflight - 1
  /\ responses' = responses \cup {resp}
  /\ lastEvent' = "response"
  /\ UNCHANGED <<variant, payload, loading, payloadAtFetch, reads, search,
                 strategyFilter, priceActionFilter, view, alerts, downloads,
                 blob, crashed>>
  /\ Rerender

\* Mutant of fetchFailed: the catch branch also clears the payload.
fetchFailedClearing(cause) ==
  /\ inflight > 0
  /\ alerts < MaxAlerts
  /\ inflight' = inflight - 1
  /\ payloadAtFetch' = NullPayload
  /\ alerts' = alerts + 1
  /\ lastEvent' = "fetchFail"
  /\ setLoadingFalse
  /\ payload' = NullPayload
  /\ UNCHANGED <<variant, responses, reads, search, strategyFilter,
                 priceActionFilter, view, downloads, blob, crashed>>
  /\ Rerender

\* fetch rejects, or the response is not ok: the catch branch (one alert),
\* then finally.
fetchFailed(cause) ==
  /\ inflight > 0
  /\ alerts < MaxAlerts
  /\ inflight' = inflight - 1
  /\ payloadAtFetch' = NullPayload
  /\ alerts' = alerts + 1
  /\ lastEvent' = "fetchFail"
  /\ setLoadingFalse
  /\ UNCHANGED <<variant, payload, responses, reads, search, strategyFilter,
                 priceActionFilter, view, downloads, blob, crashed>>
  /\ Rerender

\* res.json() settles: setPayload(data), or the catch branch when the body
\* does not parse; then finally.
jsonSettled(resp) ==
  /\ resp \in responses
  /\ responses' = responses \ {resp}
  /\ payloadAtFetch' = NullPayload
  /\ setLoadingFalse
  /\ IF resp.parses
     THEN /\ lastEvent' = "fetchOk"
          /\ setPayload(resp.value)
          /\ UNCHANGED alerts
     ELSE /\ alerts < MaxAlerts
          /\ alerts' = alerts + 1
          /\ lastEvent' = "fetchFail"
          /\ UNCHANGED <<payload, view, crashed>>
  /\ UNCHANGED <<variant, inflight, reads, search, strategyFilter,
                 priceActionFilter, downloads, blob>>
  /\ Rerender

\* onUploadFile / uploadJSON: reader.readAsText(file) of the chosen file.
onUploadFile(file) ==
  /\ ~crashed
  /\ Cardinality(reads) < MaxReads
  /\ file \notin reads
  /\ reads' = reads \cup {file}
  /\ lastEvent' = "upload"
  /\ UNCHANGED <<variant, payload, loading, inflight, responses,
                 payloadAtFetch, search, strategyFilter, priceActionFilter,
                 view, alerts, downloads, blob, crashed>>
  /\ Rerender

\* Mutant of readerOnload: the catch branch also clears the payload.
readerOnloadClearing(file) ==
  /\ file \in reads
  /\ reads' = reads \ {file}
  /\ IF file.parses
     THEN /\ lastEvent' = "uploadOk"
          /\ setPayload(file.value)
          /\ UNCHANGED alerts
     ELSE /\ alerts < MaxAlerts
          /\ alerts' = alerts + 1
          /\ lastEvent' = "uploadInvalid"
          /\ payload' = NullPayload
          /\ UNCHANGED <<view, crashed>>
  /\ UNCHANGED <<variant, loading, inflight, responses, payloadAtFetch,
                 search, strategyFilter, priceActionFilter, downloads, blob>>
  /\ Rerender

\* Mutant of readerOnload: a file read while a fetch is outstanding is dropped.
readerOnloadUnlessLoading(file) ==
  /\ file \in reads
  /\ reads' = reads \ {file}
  /\ IF file.parses /\ ~loading
     THEN /\ lastEvent' = "uploadOk"
          /\ setPayload(file.value)
          /\ UNCHANGED alerts
     ELSE /\ alerts < MaxAlerts
          /\ alerts' = alerts + 1
          /\ lastEvent' = "uploadInvalid"
          /\ UNCHANGED <<payload, view, crashed>>
  /\ UNCHANGED <<variant, loading, inflight, responses, payloadAtFetch,
                 search, strategyFilter, priceActionFilter, downloads, blob>>
  /\ Rerender

\* reader.onload: setPayload(JSON.parse(text)), or the alert of the catch.
readerOnload(file) ==
  /\ file \in reads
  /\ reads' = reads \ {file}
  /\ IF file.parses
     THEN /\ lastEvent' = "uploadOk"
          /\ setPayload(file.value)
          /\ UNCHANGED alerts
     ELSE /\ alerts < MaxAlerts
          /\ alerts' = alerts + 1
          /\ lastEvent' = "uploadInvalid"
          /\ UNCHANGED <<payload, view, crashed>>
  /\ UNCHANGED <<variant, loading, inflight, responses, payloadAtFetch,
                 search, strategyFilter, priceActionFilter, downloads, blob>>
  /\ Rerender

\* onChange of the search box.
setSearch(q) ==
  /\ ~crashed
  /\ q # search
  /\ search' = q
  /\ Rendered(payload, q)
  /\ lastEvent' = "search"
  /\ UNCHANGED <<variant, payload, loading, inflight, responses,
                 payloadAtFetch, reads, strategyFilter, priceActionFilter,
                 view, alerts, downloads, blob>>
  /\ Rerender

\* backup: onChange of the strategy select.
setStrategyFilter(f) ==
  /\ ~crashed
  /\ variant = "backup"
  /\ f # strategyFilter
  /\ strategyFilter' = f
  /\ lastEvent' = "filter"
  /\ UNCHANGED <<variant, payload, loading, inflight, responses,
                 payloadAtFetch, reads, search, priceActionFilter, view,
                 alerts, downloads, blob, crashed>>
  /\ Rerender

\* backup: onChange of the price-action select.
setPriceActionFilter(f) ==
  /\ ~crashed
  /\ variant = "backup"
  /\ f # priceActionFilter
  /\ priceActionFilter' = f
  /\ lastEvent' = "filter"
  /\ UNCHANGED <<variant, payload, loading, inflight, responses,
                 payloadAtFetch, reads, search, strategyFilter, view, alerts,
                 downloads, blob, crashed>>
  /\ Rerender

\* part_000 / part_001: "Open table" and "Back".
setView(w) ==
  /\ ~crashed
  /\ variant # "backup"
  /\ w # view
  /\ view' = w
  /\ lastEvent' = "view"
  /\ UNCHANGED <<variant, payload, loading, inflight, responses,
                 payloadAtFetch, reads, search, strategyFilter,
                 priceActionFilter, alerts, downloads, blob, crashed>>
  /\ Rerender

\* Mutant of downloadCSV: no early return on an empty rows.
downloadCSVOfEmpty ==
  /\ ~crashed
  /\ variant = "backup" \/ Len(rows) > 0
  /\ lastEvent' = "export"
  /\ IF csvThrows(variant, rows)
     THEN UNCHANGED <<downloads, blob>>
     ELSE /\ downloads < MaxDownloads
          /\ downloads' = downloads + 1
          /\ blob' = csvText(variant, rows)
  /\ UNCHANGED <<variant, payload, loading, inflight, responses,
                 payloadAtFetch, reads, search, strategyFilter,
                 priceActionFilter, view, alerts, crashed>>
  /\ Rerender

\* downloadCSV: nothing on an empty rows (part_000 / part_001 also disable
\* the button then); otherwise the blob of the joined lines.  In backup an
\* undefined product_name throws out of the handler before any blob is made.
downloadCSV ==
  /\ ~crashed
  /\ variant = "backup" \/ Len(rows) > 0
  /\ lastEvent' = "export"
  /\ IF Len(rows) = 0 \/ csvThrows(variant, rows)
     THEN UNCHANGED <<downloads, blob>>
     ELSE /\ downloads < MaxDownloads
          /\ downloads' = downloads + 1
          /\ blob' = csvText(variant, rows)
  /\ UNCHANGED <<variant, payload, loading, inflight, responses,
                 payloadAtFetch, reads, search, strategyFilter,
                 priceActionFilter, view, alerts, crashed>>
  /\ Rerender

Next ==
  \/ fetchFromLambda
  \/ \E resp \in Responses : fetchResponded(resp)
  \/ \E cause \in FetchFailures : fetchFailed(cause)
  \/ \E resp \in Responses : jsonSettled(resp)
  \/ \E file \in Files : onUploadFile(file)
  \/ \E file \in Files : readerOnload(file)
  \/ \E q \in SearchInputs : setSearch(q)
  \/ \E f \in StrategyPicks : setStrategyFilter(f)
  \/ \E f \in PriceActionPicks : setPriceActionFilter(f)
  \/ \E w \in {"home", "table"} : setView(w)
  \/ downloadCSV

Spec == Init /\ [][Next]_vars

\* ------------------------------------------------- export specification
\* All texts over an alphabet, of at most n symbols.
RECURSIVE TextsUpTo(_, _)
TextsUpTo(alphabet, n) ==
  IF n = 0 THEN {<<>>}
  ELSE LET shorter == TextsUpTo(alphabet, n - 1)
       IN shorter \cup {<<c>> \o t : c \in alphabet, t \in {u \in shorter : Len(u) = n - 1}}

\* All sequences over a set, of at most n elements.
RECURSIVE SeqsUpTo(_, _)
SeqsUpTo(S, n) ==
  IF n = 0 THEN {<<>>}
  ELSE LET shorter == SeqsUpTo(S, n - 1)
       IN shorter \cup {<<x>> \o t : x \in S, t \in {u \in shorter : Len(u) = n - 1}}

\* One-record collections: the free-text fields range over every short text
\* with quotes, commas and newlines.
CsvSkus == TextsUpTo({"a", QUOTE}, MaxStrLen) \ {<<>>}

CsvNames == TextsUpTo({"a", QUOTE, COMMA, NL}, MaxStrLen)

CsvReasons == {<<>>, <<QUOTE>>, <<"a", QUOTE>>}

CsvStrategies == {<<"hold">>, <<QUOTE, "hold">>}

CsvRichRecords ==
  {Recommendation(sku, name, 12, 5, 3, strategy, <<"none">>, -1, reason, {}) :
     sku \in CsvSkus, name \in CsvNames, strategy \in CsvStrategies,
     reason \in CsvReasons}
  \cup
  {Recommendation(sku, name, 0, 20, -2, <<"hold">>, <<"increase">>, 0, <<>>, {"reason"}) :
     sku \in CsvSkus, name \in CsvNames}

\* Collections of several records.
RecQuoted ==
  Recommendation(<<"a", "4">>, <<"B", "o", "b", QUOTE, "s", QUOTE, COMMA>>, 7, 105,
                 -4, <<"Hold">>, <<"decrease">>, -1, <<QUOTE, QUOTE>>, {})

CsvSmallRecords == {RecA1, RecB2, RecQuoted}

CsvCollections ==
  {<<r>> : r \in CsvRichRecords} \cup SeqsUpTo(CsvSmallRecords, MaxRows)

\* A payload of the required shape is loaded; the user exports it.
InitCsv ==
  /\ variant \in Variants
  /\ \E recs \in CsvCollections :
       payload = Payload(<<"r", "1">>, Len(recs), recs, {})
  /\ loading = FALSE
  /\ inflight = 0
  /\ responses = {}
  /\ payloadAtFetch = NullPayload
  /\ reads = {}
  /\ search = <<>>
  /\ strategyFilter = ALL
  /\ priceActionFilter = ALL
  /\ view = "home"
  /\ alerts = 0
  /\ downloads = 0
  /\ blob = <<>>
  /\ crashed = FALSE
  /\ lastEvent = "fetchOk"
  /\ Mounted

NextCsv == downloadCSV

SpecCsv == InitCsv /\ [][NextCsv]_vars

\* ------------------------------------------------- filter specification
FilterRecords ==
  {RecA1, RecQuoted,
   Recommendation(<<"b">>, <<"A", SP, "a">>, 1, 1, 1, <<"premium", "_position">>,
                  <<"none">>, 0, <<>>, {"reason"}),
   Recommendation(<<"B", "a">>, <<>>, 3, 2, 1, <<"hold">>, <<"increase">>, 1,
                  <<"a">>, {})}

FilterQueries == TextsUpTo({"a", "B", SP}, MaxStrLen)

\* A payload of the required shape is loaded; the user searches and filters.
InitFilter ==
  /\ variant \in Variants
  /\ \E recs \in SeqsUpTo(FilterRecords, MaxRows) :
       payload = Payload(<<"r", "1">>, Len(recs), recs, {})
  /\ loading = FALSE
  /\ inflight = 0
  /\ responses = {}
  /\ payloadAtFetch = NullPayload
  /\ reads = {}
  /\ search = <<>>
  /\ strategyFilter = ALL
  /\ priceActionFilter = ALL
  /\ view = "home"
  /\ alerts = 0
  /\ downloads = 0
  /\ blob = <<>>
  /\ crashed = FALSE
  /\ lastEvent = "fetchOk"
  /\ Mounted

\* One keystroke in the search box: a symbol is typed at the end, or the last
\* one is deleted.
OneKeystroke(s, q) ==
  \/ Len(q) = Len(s) + 1 /\ SubSeq(q, 1, Len(s)) = s
  \/ Len(s) = Len(q) + 1 /\ SubSeq(s, 1, Len(q)) = q

typeSearch(q) == OneKeystroke(search, q) /\ setSearch(q)

NextFilter ==
  \/ \E q \in FilterQueries : typeSearch(q)
  \/ \E f \in StrategyOptions : setStrategyFilter(f)
  \/ \E f \in PriceActionOptions : setPriceActionFilter(f)

SpecFilter == InitFilter /\ [][NextFilter]_vars

\* --------------------------------------------- statistics specification
\* Records with every spelling of the tags the statistics look for, and with
\* numeric and tag fields absent.
StatsRecords ==
  {RecA1, RecB2,
   Recommendation(<<"a", "4">>, <<"B">>, 7, 3, -4, <<"Hold">>, <<"Increase">>, 2,
                  <<>>, {"reason"}),
   Recommendation(<<"a", "5">>, <<"b">>, 2, 6, 1, <<"Premium">>, <<"decrease">>, -1,
                  <<"x">>, {}),
   Recommendation(<<"B", "6">>, <<"a">>, 0, 4, 0, <<"HOLD">>, <<"none">>, 0, <<>>,
                  {"units_ordered", "gross_profit_unit", "price_change_pct", "reason"}),
   Recommendation(<<"B", "7">>, <<"a", "b">>, 3, 0, 2, <<>>, <<>>, 1, <<>>,
                  {"current_price", "strategy", "price_action", "reason"}),
   Recommendation(<<"a", "8">>, <<"b">>, 1, 2, 1, <<"hold", "premium">>, <<"none">>,
                  0, <<>>, {"reason"}),
   Recommendation(<<"a", "9">>, <<"b">>, 1, 2, 1, <<"b">>, <<"none">>, 0, <<>>,
                  {"reason"})}

\* No payload, or a payload whose sku_count is absent, 0, or another number
\* than it has records.
StatsPayloads ==
  {NullPayload}
  \cup {Payload(<<"r", "1">>, 0, recs, {"sku_count"}) : recs \in SeqsUpTo(StatsRecords, MaxRows)}
  \cup {Payload(<<"r", "1">>, n, recs, {}) : n \in {0, 5}, recs \in SeqsUpTo(StatsRecords, MaxRows)}

StatsQueries == {<<>>, <<"a">>, <<"B", "7">>}

\* A payload is loaded (or none is); the user searches and filters.
InitStats ==
  /\ variant \in Variants
  /\ payload \in StatsPayloads
  /\ loading = FALSE
  /\ inflight = 0
  /\ responses = {}
  /\ payloadAtFetch = NullPayload
  /\ reads = {}
  /\ search = <<>>
  /\ strategyFilter = ALL
  /\ priceActionFilter = ALL
  /\ view = "home"
  /\ alerts = 0
  /\ downloads = 0
  /\ blob = <<>>
  /\ crashed = FALSE
  /\ lastEvent = "mount"
  /\ Mounted

NextStats ==
  \/ \E q \in StatsQueries : setSearch(q)
  \/ \E f \in StrategyPicks : setStrategyFilter(f)
  \/ \E f \in PriceActionPicks : setPriceActionFilter(f)

SpecStats == InitStats /\ [][NextStats]_vars

\* --------------------------------------------- derivation specification
NumericFields ==
  {"units_ordered", "current_price", "gross_profit_unit", "price_change_pct"}

\* Records over every combination of small numeric values, zero, negative
\* values and absent numeric fields (an absent field holds 0 in its slot).
NumberOrAbsent(values) ==
  {[value |-> n, absent |-> FALSE] : n \in values} \cup {[value |-> 0, absent |-> TRUE]}

AbsentOf(units, price, gpu, pct) ==
  {f \in NumericFields :
     \/ f = "units_ordered" /\ units.absent
     \/ f = "current_price" /\ price.absent
     \/ f = "gross_profit_unit" /\ gpu.absent
     \/ f = "price_change_pct" /\ pct.absent}

DeriveRecords ==
  {Recommendation(<<"a">>, <<"b">>, units.value, price.value, gpu.value,
                  <<"hold">>, <<"none">>, pct.value, <<>>,
                  AbsentOf(units, price, gpu, pct)) :
     units \in NumberOrAbsent({0, 3}), price \in NumberOrAbsent({0, 5}),
     gpu \in NumberOrAbsent({-2, 0}), pct \in NumberOrAbsent({-1, 0, 2})}

\* Collections of one record of any kind, or of several complete records.
DeriveCollections ==
  {<<r>> : r \in DeriveRecords}
  \cup SeqsUpTo({RecA1, RecB2, RecQuoted}, MaxRows)

\* A payload is loaded; the user searches, filters and exports.
InitDerive ==
  /\ variant \in Variants
  /\ \E recs \in DeriveCollections :
       payload = Payload(<<"r", "1">>, Len(recs), recs, {})
  /\ loading = FALSE
  /\ inflight = 0
  /\ responses = {}
  /\ payloadAtFetch = NullPayload
  /\ reads = {}
  /\ search = <<>>
  /\ strategyFilter = ALL
  /\ priceActionFilter = ALL
  /\ view = "home"
  /\ alerts = 0
  /\ downloads = 0
  /\ blob = <<>>
  /\ crashed = FALSE
  /\ lastEvent = "fetchOk"
  /\ Mounted

NextDerive ==
  \/ \E q \in SearchInputs : setSearch(q)
  \/ \E f \in StrategyPicks : setStrategyFilter(f)
  \/ \E f \in PriceActionPicks : setPriceActionFilter(f)
  \/ downloadCSV

SpecDerive == InitDerive /\ [][NextDerive]_vars

\* --------------------------------------------------- loading specification
\* Loads only, under the assumption that every fetch eventually completes: a
\* pending fetch() resolves or rejects, and a pending res.json() settles.  A
\* load is started only while every pending completion can still raise its
\* alert within MaxAlerts, so that the bound never holds a completion back.
AlertsFit == alerts + outstanding + Cardinality(reads) < MaxAlerts

fetchSettles ==
  \/ \E resp \in Responses : fetchResponded(resp)
  \/ \E cause \in FetchFailures : fetchFailed(cause)

bodySettles == \E resp \in Responses : jsonSettled(resp)

fileRead == \E file \in Files : readerOnload(file)

fetchStarts == AlertsFit /\ fetchFromLambda

uploadStarts == AlertsFit /\ \E file \in Files : onUploadFile(file)

NextLive ==
  \/ fetchStarts
  \/ fetchSettles
  \/ bodySettles
  \/ uploadStarts
  \/ fileRead

SpecLive ==
  /\ Init
  /\ [][NextLive]_vars
  /\ WF_vars(fetchSettles)
  /\ WF_vars(bodySettles)

\* ------------------------------------------------------------------ claims
\* A step in which a fetch ends in failure: fetch rejects or the status is
\* not ok (the call leaves without a response to read), or res.json() rejects.
FetchFailureStep ==
  \/ inflight' < inflight /\ responses' = responses
  \/ \E r \in responses \ responses' : ~r.parses

\* C1 (as stated): every fetch that ends in a non-success status or a
\* transport/parse exception raises exactly one notification and leaves the
\* payload equal to the payload before the fetch was triggered.
C1_PayloadAsBeforeTrigger ==
  [][FetchFailureStep => alerts' = alerts + 1 /\ payload' = payloadAtFetch]_vars

\* C1 (amended): every fetch that ends in failure raises exactly one
\* notification and its failure handling leaves the current payload as it
\* was (a load completed meanwhile by an upload is kept).
C1_FailedFetchKeepsPayload ==
  [][FetchFailureStep => alerts' = alerts + 1 /\ payload' = payload]_vars

\* A fetch has failed while a payload was loaded.
C1_Witness == lastEvent = "fetchFail" /\ payload # NullPayload /\ alerts = 1

\* C2: reading an uploaded file whose text is not parseable JSON raises the
\* invalid-input notification and leaves the payload unchanged.
C2_UnparseableUploadKeepsPayload ==
  [][(\E f \in reads \ reads' : ~f.parses)
       => alerts' = alerts + 1 /\ payload' = payload]_vars

\* An unparseable upload was handled while a payload was loaded.
C2_Witness == lastEvent = "uploadInvalid" /\ payload # NullPayload

\* C3: an input (fetched body or uploaded file) that parses as JSON but has
\* not the payload shape is rejected with a notification, and the previous
\* payload stays.
C3_IllShapedInputRejected ==
  [][/\ \A f \in reads \ reads' :
          f.parses /\ ~HasPayloadShape(f.value)
            => alerts' = alerts + 1 /\ payload' = payload
     /\ \A r \in responses \ responses' :
          r.parses /\ ~HasPayloadShape(r.value)
            => alerts' = alerts + 1 /\ payload' = payload]_vars

\* The values the endpoint and the files of a run can deliver.
Deliverable == {t.value : t \in {u \in Responses \cup Files : u.parses}}

\* C4: after every successful fetch or upload (handled by the mounted
\* component) the current payload is exactly the newly loaded one, and the
\* current payload is never a mixture of two loads.
C4_WholeValueSwap ==
  /\ [](payload = NullPayload \/ payload \in Deliverable)
  /\ [][/\ \A f \in reads \ reads' : f.parses /\ ~crashed => payload' = f.value
        /\ \A r \in responses \ responses' :
             r.parses /\ ~crashed => payload' = r.value]_vars

\* An uploaded payload has replaced a fetched one that had been exported.
C4_Witness ==
  /\ lastEvent = "uploadOk"
  /\ payload = PayloadR2
  /\ alerts = 0
  /\ downloads = 1
  /\ blob = csvText(variant, rowsOf(variant, PayloadR1, <<>>, ALL, ALL))

\* C5: no error is fatal: after any sequence of events the user can again
\* trigger every action, and no error propagates out of its handler.
C5_SessionSurvives ==
  /\ ~crashed
  /\ loading => outstanding > 0
  /\ ~(lastEvent = "export" /\ csvThrows(variant, rows))

\* C6: an export of an empty collection produces no artifact, raises no
\* notification and changes no state.
C6_EmptyExportIsNoOp ==
  [][lastEvent' = "export" /\ Len(rows) = 0
       => /\ downloads' = downloads
          /\ blob' = blob
          /\ alerts' = alerts
          /\ UNCHANGED <<variant, payload, loading, inflight, responses, reads,
                         search, strategyFilter, priceActionFilter, view,
                         crashed>>]_vars

\* Export was triggered on an empty collection while a payload was loaded.
C6_Witness ==
  /\ lastEvent = "export"
  /\ Len(rows) = 0
  /\ payload # NullPayload
  /\ downloads = 0

\* The k-th smallest position of a set of positions.
KthOf(S, k) == CHOOSE p \in S : Cardinality({q \in S : q < p}) = k - 1

\* The pieces of text[lo..hi] between the positions in cuts.
PiecesOf(text, lo, hi, cuts) ==
  [k \in 1..(Cardinality(cuts) + 1) |->
     SubSeq(text,
            IF k = 1 THEN lo ELSE KthOf(cuts, k - 1) + 1,
            IF k = Cardinality(cuts) + 1 THEN hi ELSE KthOf(cuts, k) - 1)]

\* The pieces of a text between the occurrences of a separator symbol.
SplitOn(text, sep) ==
  PiecesOf(text, 1, Len(text), {i \in 1..Len(text) : text[i] = sep})

TextColumns == {"sku", "product_name", "strategy", "price_action", "reason"}

QuotedColumns == {"product_name", "reason"}

\* The column set of the minimal variant, in its declared order.
MinimalColumns ==
  <<"sku", "product_name", "strategy", "price_action", "price_change_pct",
    "units_ordered", "current_price", "gross_profit_unit", "reason">>

NoSymbolIn(r, columns, c) ==
  \A f \in columns : \A k \in 1..Len(orEmpty(r, f)) : orEmpty(r, f)[k] # c

\* The position of a column in a header.
ColumnAt(header, name) == CHOOSE k \in 1..Len(header) : header[k] = name

\* What a column of a record is exported as.
ExportedCell(r, name) ==
  IF name \in QuotedColumns THEN quoted(orEmpty(r, name))
  ELSE IF name \in TextColumns THEN r[name]
  ELSE NumberToString(r[name])

\* C7: the text exported for n > 0 records without embedded newlines is n+1
\* lines joined by single newlines, with no trailing newline: the header of
\* field names in declared order, then one line per record in collection
\* order with as many comma-joined fields, in the header's order.
C7_CsvLayout ==
  (downloads >= 1 /\ \A i \in 1..Len(rows) : NoSymbolIn(rows[i], TextColumns, NL))
  => LET lines == SplitOn(blob, NL)
         header == headerOf(variant)
     IN /\ Len(lines) = Len(rows) + 1
        /\ blob[Len(blob)] # NL
        /\ SplitOn(lines[1], COMMA) = [k \in 1..Len(header) |-> <<header[k]>>]
        /\ variant # "backup" => SplitOn(lines[1], COMMA)
                                   = [k \in 1..Len(MinimalColumns) |-> <<MinimalColumns[k]>>]
        /\ \A i \in 1..Len(rows) :
             lines[i + 1]
               = join([k \in 1..Len(header) |-> ExportedCell(rows[i], header[k])],
                      <<COMMA>>)

\* Two records, one with a quote and a comma in its name, were exported.
C7_Witness ==
  /\ downloads = 1
  /\ Len(rows) = 2
  /\ rows[1].sku = RecQuoted.sku
  /\ rows[2].sku = RecA1.sku

\* The text with every pair of quotes made one quote; a lone quote stays.
RECURSIVE Undoubled(_)
Undoubled(s) ==
  IF s = <<>> THEN <<>>
  ELSE IF Len(s) >= 2 /\ s[1] = QUOTE /\ s[2] = QUOTE
  THEN <<QUOTE>> \o Undoubled(SubSeq(s, 3, Len(s)))
  ELSE <<s[1]>> \o Undoubled(Tail(s))

Without(s, c) == SelectSeq(s, LAMBDA x : x # c)

Count(s, c) == Cardinality({k \in 1..Len(s) : s[k] = c})

\* A cell is the value wrapped in quotes, each quote of the value doubled and
\* nothing else altered.
IsQuotedForm(cell, value) ==
  /\ Len(cell) = Len(value) + Count(value, QUOTE) + 2
  /\ cell[1] = QUOTE
  /\ cell[Len(cell)] = QUOTE
  /\ LET inner == SubSeq(cell, 2, Len(cell) - 1)
     IN /\ Count(inner, QUOTE) = 2 * Count(value, QUOTE)
        /\ Without(inner, QUOTE) = Without(value, QUOTE)
        /\ Undoubled(inner) = value

\* C8: in every exported row product_name and reason are wrapped in double
\* quotes with each inner quote doubled (an absent reason is the empty
\* quoted text) and no other symbol altered.
C8_QuotedFields ==
  downloads >= 1
  => \A i \in 1..Len(rows) :
       LET header == headerOf(variant)
           cells == csvRow(variant, rows[i])
           name == cells[ColumnAt(header, "product_name")]
           reason == cells[ColumnAt(header, "reason")]
       IN /\ IsQuotedForm(name, rows[i].product_name)
          /\ IsQuotedForm(reason, orEmpty(rows[i], "reason"))
          /\ includes(blob, <<COMMA>> \o name \o <<COMMA>>)
          /\ includes(blob, <<COMMA>> \o reason)

\* A name with quotes and a record without a reason were exported.
C8_Witness ==
  /\ downloads = 1
  /\ \E i \in 1..Len(rows) : Count(rows[i].product_name, QUOTE) = 2
  /\ \E i \in 1..Len(rows) : "reason" \in rows[i].missing

\* Reading a CSV text back: split at the newlines and commas that lie outside
\* quoted fields (an even number of quotes precedes them); a field wrapped in
\* quotes is its inside with every doubled quote made one quote.
OutsideQuotes(text, i) ==
  Cardinality({k \in 1..(i - 1) : text[k] = QUOTE}) % 2 = 0

Unquoted(field) ==
  IF Len(field) >= 2 /\ field[1] = QUOTE /\ field[Len(field)] = QUOTE
  THEN Undoubled(SubSeq(field, 2, Len(field) - 1))
  ELSE field

ReadCsv(text) ==
  LET breaks == {i \in 1..Len(text) : text[i] = NL /\ OutsideQuotes(text, i)}
      commas == {i \in 1..Len(text) : text[i] = COMMA /\ OutsideQuotes(text, i)}
      n == Cardinality(breaks) + 1
      lo(k) == IF k = 1 THEN 1 ELSE KthOf(breaks, k - 1) + 1
      hi(k) == IF k = n THEN Len(text) ELSE KthOf(breaks, k) - 1
      fieldsOf(k) ==
        LET raw == PiecesOf(text, lo(k), hi(k), {i \in commas : lo(k) <= i /\ i <= hi(k)})
        IN [j \in 1..Len(raw) |-> Unquoted(raw[j])]
  IN [k \in 1..n |-> fieldsOf(k)]

\* Reading a decimal numeral back.
DigitValue(c) ==
  CASE c = "0" -> 0 [] c = "1" -> 1 [] c = "2" -> 2 [] c = "3" -> 3
    [] c = "4" -> 4 [] c = "5" -> 5 [] c = "6" -> 6 [] c = "7" -> 7
    [] c = "8" -> 8 [] c = "9" -> 9 [] OTHER -> -1

RECURSIVE DigitsValue(_, _)
DigitsValue(s, acc) ==
  IF s = <<>> THEN acc ELSE DigitsValue(Tail(s), 10 * acc + DigitValue(Head(s)))

IsNumeral(s) == s # <<>> /\ \A k \in 1..Len(s) : DigitValue(s[k]) >= 0

ReadsAsNumber(s, n) ==
  IF s # <<>> /\ Head(s) = "-"
  THEN IsNumeral(Tail(s)) /\ n = -DigitsValue(Tail(s), 0)
  ELSE IsNumeral(s) /\ n = DigitsValue(s, 0)

\* Reading the exported text back recovers the header and, in order, every
\* field value of every record (an absent reason as the empty text).
RoundTrips(v, rs, text) ==
  LET header == headerOf(v)
      back == ReadCsv(text)
  IN /\ Len(back) = Len(rs) + 1
     /\ back[1] = [k \in 1..Len(header) |-> <<header[k]>>]
     /\ \A i \in 1..Len(rs) :
          /\ Len(back[i + 1]) = Len(header)
          /\ \A k \in 1..Len(header) :
               IF header[k] \in TextColumns
               THEN back[i + 1][k] = orEmpty(rs[i], header[k])
               ELSE ReadsAsNumber(back[i + 1][k], rs[i][header[k]])

\* C9 (as stated): for records whose string fields hold no comma and no
\* newline, reading the exported text back recovers every field value.
C9_RoundTrip ==
  (/\ downloads >= 1
   /\ \A i \in 1..Len(rows) :
        NoSymbolIn(rows[i], TextColumns, COMMA) /\ NoSymbolIn(rows[i], TextColumns, NL))
  => RoundTrips(variant, rows, blob)

\* C9 (amended): ... and whose unquoted string fields (sku, strategy,
\* price_action) hold no double quote.
C9_RoundTripUnquotedClean ==
  (/\ downloads >= 1
   /\ \A i \in 1..Len(rows) :
        /\ NoSymbolIn(rows[i], TextColumns, COMMA)
        /\ NoSymbolIn(rows[i], TextColumns, NL)
        /\ NoSymbolIn(rows[i], TextColumns \ QuotedColumns, QUOTE))
  => RoundTrips(variant, rows, blob)

\* A record with quotes in its name and its reason, and negative numbers,
\* was exported and read back.
C9_Witness ==
  /\ downloads = 1
  /\ Len(rows) = 1
  /\ rows[1].sku = <<"a", "a">>
  /\ rows[1].product_name = <<QUOTE, "a">>
  /\ rows[1].reason = <<"a", QUOTE>>
  /\ rows[1].price_change_pct < 0
  /\ rows[1].strategy = <<"hold">>
  /\ RoundTrips(variant, rows, blob)

\* The records the filter of a variant reads.
filterInput ==
  IF variant = "backup" THEN mapWithDerived(payloadRows(payload))
  ELSE payloadRows(payload)

\* The conjunction of the active predicates of a variant.
PassesAll(r) ==
  IF variant = "backup"
  THEN /\ searchMatches(r, search)
       /\ strategyMatches(r, strategyFilter)
       /\ priceActionMatches(r, priceActionFilter)
  ELSE trim(toLowerCase(search)) = <<>> \/ queryMatches(r, trim(toLowerCase(search)))

\* C10: the filter result is the ordered sub-sequence of its input of exactly
\* the records that satisfy all active predicates: the j-th passing record
\* of the input is the j-th record of the result, and there is no other.
C10_FilterIsSubsequence ==
  LET input == filterInput
      shown == shownRows(variant, payload, search, strategyFilter, priceActionFilter)
      passing == {j \in 1..Len(input) : PassesAll(input[j])}
  IN /\ Len(shown) = Cardinality(passing)
     /\ \A j \in passing : shown[Cardinality({k \in passing : k <= j})] = input[j]

\* A search and both filters are active and keep one record of two.
C10_Witness ==
  /\ variant = "backup"
  /\ search # <<>>
  /\ strategyFilter # ALL
  /\ priceActionFilter # ALL
  /\ Len(filterInput) = 2
  /\ Len(rows) = 1
  /\ rows[1] = filterInput[2]

\* The filter of a variant applied to a collection given as the payload's
\* recommendations.
filterOf(recs) ==
  shownRows(variant, [payload EXCEPT !.recommendations = recs], search,
            strategyFilter, priceActionFilter)

\* C11: filtering is idempotent: for a fixed query and filter selection, the
\* filter applied to its own result gives the result of applying it once.
C11_FilterIdempotent ==
  filterOf(filterOf(payloadRows(payload))) = filterOf(payloadRows(payload))

\* An active search keeps some records of the collection and drops others.
C11_Witness ==
  /\ search # <<>>
  /\ Len(filterOf(payloadRows(payload))) = 1
  /\ Len(payloadRows(payload)) = 2
  /\ lastEvent = "search"

\* C12: with both categorical filters at "all", an empty or whitespace-only
\* query keeps every record: the result is the input, in order and content.
C12_BlankQueryMatchesAll ==
  (strategyFilter = ALL /\ priceActionFilter = ALL /\ trim(search) = <<>>)
  => shownRows(variant, payload, search, strategyFilter, priceActionFilter)
       = filterInput

\* q occurs in s as a contiguous piece.
IsSubstring(q, s) ==
  \E i \in 1..(Len(s) + 1) : \E j \in (i - 1)..Len(s) : SubSeq(s, i, j) = q

\* The fields the free-text predicate of a variant searches.
SearchedFields ==
  IF variant = "backup" THEN {"sku", "product_name"}
  ELSE {"sku", "product_name", "strategy", "price_action"}

\* The lowercased query is a piece of the lowercased value of a searched field.
QueryInSomeField(r, query) ==
  \E f \in SearchedFields : IsSubstring(toLowerCase(query), toLowerCase(orEmpty(r, f)))

\* The table shows the record.
Shown(r) ==
  LET shown == shownRows(variant, payload, search, strategyFilter, priceActionFilter)
  IN \E k \in 1..Len(shown) : shown[k] = r

ComparedQuery == IF variant = "backup" THEN search ELSE trim(search)

WithField(rs, f, value) == SelectSeq(rs, LAMBDA r : r[f] = value)

\* C14: each categorical filter of backup keeps exactly the records whose
\* field is string-equal to the selected value, and the selection "all"
\* keeps every record.
C14_CategoricalFilters ==
  (variant = "backup" /\ search = <<>>)
  => /\ priceActionFilter = ALL
          => rows = IF strategyFilter = ALL THEN filterInput
                    ELSE WithField(filterInput, "strategy", strategyFilter)
     /\ strategyFilter = ALL
          => rows = IF priceActionFilter = ALL THEN filterInput
                    ELSE WithField(filterInput, "price_action", priceActionFilter)

\* The strategy filter "hold" is selected on two records, one tagged "Hold"
\* and one tagged "hold": only the latter stays.
C14_Witness ==
  /\ variant = "backup"
  /\ search = <<>>
  /\ strategyFilter = <<"hold">>
  /\ priceActionFilter = ALL
  /\ Len(filterInput) = 2
  /\ filterInput[1].strategy = <<"Hold">>
  /\ filterInput[2].strategy = <<"hold">>
  /\ Len(rows) = 1

\* The payload holds an array of objects (whatever properties they lack).
RecordsAreObjects(p) ==
  /\ p.kind = "object"
  /\ "recommendations" \notin p.missing
  /\ p.recsIsArray
  /\ \A i \in 1..Len(p.recommendations) : p.recommendations[i].kind = "object"

\* C15: filtering never fails on absent data: whatever textual field a
\* record lacks, computing the filtered rows under the current query raises
\* no error.
C15_FilterTotalOnAbsentText ==
  RecordsAreObjects(payload)
  => ~crashed /\ ~renderThrows(variant, payload, search)

\* The statistics shown in the current state.
shown == shownStats(variant, payload, rows)

\* The payload declares a sku_count (there is a payload, and the property is
\* neither undefined nor null).
DeclaresSkuCount == payload.kind = "object" /\ "sku_count" \notin payload.missing

\* C16: the displayed skuCount is the payload's declared sku_count whenever
\* one is declared (0 and values other than the number of records too), and
\* the length of the aggregated collection otherwise.
C16_SkuCount ==
  shown.skuCount = IF DeclaresSkuCount THEN payload.sku_count ELSE Len(rows)

\* A payload of two records declares the sku_count 0, and a search has
\* narrowed the aggregated rows to one.
C16_Witness ==
  /\ lastEvent = "search"
  /\ DeclaresSkuCount
  /\ payload.sku_count = 0
  /\ Len(payloadRows(payload)) = 2
  /\ Len(rows) = 1
  /\ shown.skuCount = 0

\* How many records of a collection have a property whose lowercased value
\* (the empty text when absent) contains a text, or is that text.
HowManyContain(rs, f, text) ==
  Cardinality({i \in 1..Len(rs) : IsSubstring(text, toLowerCase(orEmpty(rs[i], f)))})

HowManyAre(rs, f, text) ==
  Cardinality({i \in 1..Len(rs) : toLowerCase(orEmpty(rs[i], f)) = text})

\* C17: the strategy counts are case-insensitive: hold is the number of
\* records whose lowercased strategy equals "hold", premium the number whose
\* lowercased strategy contains "premium".
C17_StrategyCountsAnyCase ==
  /\ shown.hold
       = HowManyAre(rows, "strategy", <<"hold">>)
  /\ shown.premium
       = HowManyContain(rows, "strategy", <<"premium">>)

\* C18 (as stated): the hold count and the premium count are each at most
\* the size of the filtered collection, the rows that pass the search and
\* the filters.
C18_CountsWithinFiltered ==
  LET total == Len(shownRows(variant, payload, search, strategyFilter,
                             priceActionFilter))
  IN shown.hold <= total /\ shown.premium <= total

\* C18 (amended): the hold count and the premium count are each at most the
\* size of the collection the statistics are computed from: the filtered rows
\* in backup, every record of the payload in part_000 / part_001.
C18_CountsWithinAggregated ==
  shown.hold <= Len(rows) /\ shown.premium <= Len(rows)

\* The strategy filter of backup keeps one of two records, and the hold count
\* is the size of what is left.
C18_Witness ==
  /\ variant = "backup"
  /\ strategyFilter = <<"hold">>
  /\ Len(payloadRows(payload)) = 2
  /\ Len(rows) = 1
  /\ shown.hold = 1
  /\ shown.premium = 0

\* C19: the increase count is the number of records whose lowercased
\* price_action equals "increase", and the decrease count (part_001) the
\* number whose lowercased price_action equals "decrease"; other values
\* count for neither.
C19_ActionCountsAnyCase ==
  /\ shown.inc
       = HowManyAre(rows, "price_action", <<"increase">>)
  /\ variant = "part_001"
       => stats(payload, rows).dec
            = HowManyAre(rows, "price_action", <<"decrease">>)

\* A numeric field with an absent value taken as 0.
Coerced(r, f) == IF f \in r.missing THEN 0 ELSE r[f]

\* The sum of units_ordered * current_price * price_change_pct over the
\* first n records of a collection.
RECURSIVE UpliftOfFirst(_, _)
UpliftOfFirst(rs, n) ==
  IF n = 0 THEN 0
  ELSE UpliftOfFirst(rs, n - 1)
       + Coerced(rs[n], "units_ordered") * Coerced(rs[n], "current_price")
           * Coerced(rs[n], "price_change_pct")

rawRecords == payloadRows(payload)

HasAllNumbers(rec) == rec.missing \cap NumericFields = {}

\* C21: for every raw record (all numeric fields present) withDerived returns
\* the raw fields unchanged plus suggested_new_price = current_price *
\* (1 + price_change_pct), suggested_price_delta = suggested_new_price -
\* current_price, revenue_impact_est = units_ordered * suggested_price_delta
\* and gross_profit_total = gross_profit_unit * units_ordered; these are the
\* rows of backup.
C21_DerivedFields ==
  /\ \A i \in 1..Len(rawRecords) :
       LET rec == rawRecords[i]
           d == withDerived(rec)
       IN HasAllNumbers(rec)
          => /\ \A f \in RecFields : d[f] = rec[f]
             /\ d.missing = rec.missing
             /\ d.nan = {}
             /\ d.suggested_new_price = rec.current_price * (1 + rec.price_change_pct)
             /\ d.suggested_price_delta = d.suggested_new_price - rec.current_price
             /\ d.revenue_impact_est = rec.units_ordered * d.suggested_price_delta
             /\ d.gross_profit_total = rec.gross_profit_unit * rec.units_ordered
  /\ (variant = "backup" /\ search = <<>> /\ strategyFilter = ALL /\ priceActionFilter = ALL)
       => rows = [i \in 1..Len(rawRecords) |-> withDerived(rawRecords[i])]

\* backup shows the row of a complete record with a negative price change.
C21_Witness ==
  /\ variant = "backup"
  /\ lastEvent = "search"
  /\ Len(rows) = 1
  /\ HasAllNumbers(rows[1])
  /\ rows[1].units_ordered = 3
  /\ rows[1].current_price = 5
  /\ rows[1].price_change_pct = -1
  /\ rows[1].suggested_price_delta = -5
  /\ rows[1].revenue_impact_est = -15

DerivedFields ==
  {"suggested_new_price", "suggested_price_delta", "revenue_impact_est",
   "gross_profit_total"}

\* C22: for every record with units_ordered = 0, revenue_impact_est = 0 and
\* gross_profit_total = 0, whatever the values of the other fields and
\* whether or not they are present.
C22_ZeroUnitsZeroTotals ==
  \A i \in 1..Len(rawRecords) :
    LET rec == rawRecords[i]
        d == withDerived(rec)
    IN ("units_ordered" \notin rec.missing /\ rec.units_ordered = 0)
       => /\ "revenue_impact_est" \notin d.nan
          /\ d.revenue_impact_est = 0
          /\ "gross_profit_total" \notin d.nan
          /\ d.gross_profit_total = 0

\* The record with every absent numeric field set to 0.
SetToZero(rec) == [rec EXCEPT !.missing = rec.missing \ NumericFields]

\* C23: the derivation is total with zero-coercion: for a record whose
\* units_ordered, current_price, gross_profit_unit or price_change_pct is
\* absent, withDerived returns the same four derived values as for the record
\* with that field set to 0, none of them undefined or NaN.
C23_DerivationCoercesToZero ==
  \A i \in 1..Len(rawRecords) :
    LET rec == rawRecords[i]
        d == withDerived(rec)
        z == withDerived(SetToZero(rec))
    IN /\ d.nan = {}
       /\ \A f \in DerivedFields : d[f] = z[f]

\* C28: on a collection where every record has all numeric fields present, the
\* sum of revenue_impact_est over the derived records (backup's estimated
\* revenue) equals the sum of units_ordered * current_price * price_change_pct
\* (the parts' estimated uplift), in exact arithmetic.
C28_RevenueEqualsUplift ==
  (\A i \in 1..Len(rawRecords) : HasAllNumbers(rawRecords[i]))
    => LET derived == [i \in 1..Len(rawRecords) |-> withDerived(rawRecords[i])]
           products == [i \in 1..Len(rawRecords) |->
                          rawRecords[i].units_ordered * rawRecords[i].current_price
                            * rawRecords[i].price_change_pct]
       IN /\ reduceSum([i \in 1..Len(rawRecords) |-> derived[i].revenue_impact_est])
               = reduceSum(products)
          /\ kpis(payload, derived).estRevenue = stats(payload, rawRecords).estUplift

\* Two complete records, one raising and one cutting its price: 80 - 735.
C28_Witness ==
  /\ lastEvent = "search"
  /\ rawRecords = <<RecB2, RecQuoted>>
  /\ kpis(payload, mapWithDerived(rawRecords)).estRevenue = -655
  /\ stats(payload, rawRecords).estUplift = -655

\* C24: while a fetch is outstanding, loading is set, and since every fetch
\* trigger is disabled while loading is set, no fetch is started then: at
\* most one fetch is in flight at any time.
C24_AtMostOneFetch ==
  /\ outstanding <= 1
  /\ outstanding > 0 => loading
  /\ loading => ~ENABLED fetchFromLambda

\* A fetch is outstanding while the user goes on using the page.
C24_Witness ==
  /\ outstanding = 1
  /\ loading
  /\ ~crashed
  /\ lastEvent = "search"

\* C26: loading is true exactly while a fetch is outstanding: it is set when
\* the fetch is triggered and cleared when the fetch completes, by success,
\* by a non-success status or by a throw; and if every fetch eventually
\* completes, loading eventually becomes false and the trigger is enabled
\* again (as long as the component stays mounted).
C26_LoadingTracksFetch ==
  /\ [](~crashed => (loading <=> outstanding > 0))
  /\ (loading /\ ~crashed) ~> (crashed \/ (~loading /\ ENABLED fetchFromLambda))

\* A fetch has failed and left loading cleared.
C26_Witness ==
  /\ lastEvent = "fetchFail"
  /\ ~loading
  /\ outstanding = 0
  /\ ~crashed
  /\ alerts = 1

\* C27: uploading is not gated by loading, so an upload and a fetch can be
\* outstanding together; each successful completion replaces the payload by
\* the value it delivers, so that after both have completed the payload is
\* the one of the completion that ran last, whichever load was started last;
\* a completion that fails leaves the payload as it is.
C27_LastCompletionWins ==
  /\ [](~crashed /\ loading /\ Cardinality(reads) < MaxReads
          => ENABLED (\E file \in Files : onUploadFile(file)))
  /\ [][~crashed
          => /\ \A f \in reads \ reads' :
                  /\ f.parses => payload' = f.value
                  /\ ~f.parses => payload' = payload
             /\ \A r \in responses \ responses' :
                  /\ r.parses => payload' = r.value
                  /\ ~r.parses => payload' = payload
             /\ (inflight' < inflight /\ responses' = responses)
                  => payload' = payload]_vars

\* The upload started during a fetch has completed first; the fetched body
\* is still being read and will complete last.
C27_Witness ==
  /\ lastEvent = "uploadOk"
  /\ payload = PayloadR2
  /\ loading
  /\ \E r \in responses : r.parses /\ r.value = PayloadR1
  /\ reads = {}
  /\ ~crashed

\* Whether the statistics of the mounted variant count a record as hold, as
\* premium: its count in the collection of that record alone.
CountedHold(r) == shownStats(variant, payload, <<r>>).hold = 1

CountedPremium(r) == shownStats(variant, payload, <<r>>).premium = 1

\* A strategy that is neither hold nor contains premium, in any case.
OtherStrategy(r) ==
  /\ safeLower(r, "strategy") # <<"hold">>
  /\ ~includes(safeLower(r, "strategy"), <<"premium">>)

\* C29: in every variant the hold and premium categories are disjoint: no
\* record is counted in both, so hold + premium is at most the size of the
\* aggregated collection; records with another strategy are counted in
\* neither, and stay in the collection and in the export.
C29_HoldPremiumDisjoint ==
  LET n == Len(rows)
      H == {i \in 1..n : CountedHold(rows[i])}
      P == {i \in 1..n : CountedPremium(rows[i])}
  IN /\ H \cap P = {}
     /\ shown.hold = Cardinality(H)
     /\ shown.premium = Cardinality(P)
     /\ shown.hold + shown.premium <= n
     /\ \A i \in 1..n : OtherStrategy(rows[i]) => i \notin H \cup P
     /\ ~csvThrows(variant, rows) => Len(csvLines(variant, rows)) = n + 1

\* A record tagged "holdpremium" is counted as premium only, next to a record
\* with another strategy that is counted in neither.
C29_Witness ==
  /\ variant = "part_001"
  /\ lastEvent = "search"
  /\ Len(rows) = 2
  /\ rows[1].strategy = <<"hold", "premium">>
  /\ OtherStrategy(rows[2])
  /\ "strategy" \notin rows[2].missing
  /\ shown.hold = 0
  /\ shown.premium = 1

\* The records the claim makes the export and the statistics cover: in backup
\* the rows that pass the search and the categorical filters, in part_000 /
\* part_001 every record of the payload.
AggregationScope ==
  IF variant = "backup"
  THEN SelectSeq(mapWithDerived(payloadRows(payload)), PassesAll)
  ELSE payloadRows(payload)

\* C30: in part_000 / part_001 the CSV export and the statistics are computed
\* from all records of the payload and a search changes neither; in backup
\* the export and the KPIs cover exactly the rows that pass the search and
\* the categorical filters.
C30_ExportAndStatsScope ==
  /\ [](~crashed => shown = shownStats(variant, payload, AggregationScope))
  /\ [][/\ downloads' = downloads + 1 => blob' = csvText(variant, AggregationScope)
        /\ (variant # "backup" /\ search' # search /\ ~crashed') => shown' = shown]_vars

\* part_000 exports both records of the payload while the search shows one.
C30_Witness ==
  /\ variant = "part_000"
  /\ lastEvent = "export"
  /\ search = <<"a">>
  /\ payload = PayloadR1
  /\ Len(shownRows(variant, payload, search, strategyFilter, priceActionFilter)) = 1
  /\ downloads = 1
  /\ Len(SplitOn(blob, NL)) = 3
  /\ shown.skuCount = 2

\* C25: the memoized filtered rows and statistics the mounted component
\* renders equal a fresh recomputation from the current payload, query and
\* filters: no stale derived result is ever shown.
C25_MemoIsFresh ==
  ~crashed
    => /\ memo.rows.value
            = shownRows(variant, payload, search, strategyFilter, priceActionFilter)
       /\ memo.stats.value = shownStats(variant, payload, rows)

\* After a search on a loaded payload the cached rows are the searched ones.
C25_Witness ==
  /\ ~crashed
  /\ lastEvent = "search"
  /\ search = <<"a">>
  /\ payload = PayloadR1
  /\ Len(memo.rows.value) = 1
  /\ memo.stats.value.skuCount = 2

====
